---- MODULE Spec2Model ----
(***************************************************************************)
(* Model of juno-broadcast's internal/broadcast package: the Client        *)
(* (Submit, Status, WaitForConfirmations) over an abstract RPC transport.  *)
(*                                                                         *)
(* Go strings are sequences of one-character strings, so that TrimSpace,   *)
(* ToLower, hex.DecodeString and strings.Contains are computed character   *)
(* by character as the library computes them.  The transport (RPC) is the  *)
(* environment: every reply is chosen nondeterministically from a small    *)
(* set of replies that a daemon, or a test double, can give.               *)
(***************************************************************************)
EXTENDS Integers, Sequences, FiniteSets, TLC

VARIABLES
    op,        \* the public operation in progress: "idle", "Submit", "Status", "Wait"
    pc,        \* the position inside that operation
    arg,       \* the caller's string argument (rawTxHex or txid), as passed
    minConf,   \* WaitForConfirmations' confirmations argument
    raw,       \* Submit's local raw, the result of normalizeHex (line 58)
    txid,      \* Status' local txid after normalisation (line 76)
    calls,     \* transport calls of the current Submit / Status call, with replies
    nCalls,    \* transport calls made since the public operation began
    polls,     \* Status calls made since the public operation began
    st,        \* TxStatus of the last Status return
    found,     \* found flag of the last Status return
    err,       \* error of the last Status return
    ret,       \* what the public operation returned: [st, found, txid, err]
    ticker,    \* "none", "running", "stopped"
    tick,      \* TRUE when ticker.C holds a tick
    ctxErr,    \* ctx.Err(): NoErr until the caller's context is cancelled
    period,    \* the period the ticker was created with (line 121), 0 without ticker
    ticksTaken, \* ticks received from ticker.C since the public operation began
    rpc,       \* Client.rpc: "nil" or the transport handle
    pollInterval, \* Client.pollInterval in milliseconds, 0 while there is no Client
    newPc,     \* the position inside New: "start", "opts", "done"
    newRPC,    \* New's rpc argument
    newOpts,   \* New's opts argument
    newIdx,    \* how many opts the loop of lines 49-53 has visited
    newErr,    \* New's error result
    parked,    \* the locals of the other goroutine's call while this one runs
    cli        \* one run of the command line: flags, position, calls made, output

\* the locals of one call of a public operation: each goroutine has its own
locals == <<op, pc, arg, minConf, raw, txid, calls, nCalls, polls, st, found, err,
            ret, ticker, tick, ctxErr, period, ticksTaken>>

\* the Client's fields, shared by every call on it
client == <<rpc, pollInterval>>

\* the state of a New call
construction == <<newPc, newRPC, newOpts, newIdx, newErr>>

vars == <<locals, client, construction, parked, cli>>

-----------------------------------------------------------------------------
(* Bounds of the model and constants of the program *)

TxIDLen == 64

DefaultPollInterval == 500

MaxMempool == 2

MaxPolls == 3

MaxConf == 2

MaxOpts == 2

-----------------------------------------------------------------------------
(* Strings *)

Rep(c, n) == [i \in 1..n |-> c]

\* the ASCII white space strings.TrimSpace removes (\v aside)
Space == {" ", "\t", "\n", "\r", "\f"}

UpperCase ==
    <<"A", "B", "C", "D", "E", "F", "G", "H", "I", "J", "K", "L", "M",
      "N", "O", "P", "Q", "R", "S", "T", "U", "V", "W", "X", "Y", "Z">>

LowerCase ==
    <<"a", "b", "c", "d", "e", "f", "g", "h", "i", "j", "k", "l", "m",
      "n", "o", "p", "q", "r", "s", "t", "u", "v", "w", "x", "y", "z">>

HexDigits ==
    {"0", "1", "2", "3", "4", "5", "6", "7", "8", "9",
     "a", "b", "c", "d", "e", "f", "A", "B", "C", "D", "E", "F"}

LowerOf ==
    [c \in {UpperCase[i] : i \in 1..Len(UpperCase)} |->
        LowerCase[CHOOSE i \in 1..Len(UpperCase) : UpperCase[i] = c]]

ToLowerChar(c) == IF c \in DOMAIN LowerOf THEN LowerOf[c] ELSE c

ToLower(s) == [i \in 1..Len(s) |-> ToLowerChar(s[i])]

TrimSpace(s) ==
    LET keep == {i \in 1..Len(s) : s[i] \notin Space}
    IN  IF keep = {} THEN <<>>
        ELSE SubSeq(s, CHOOSE i \in keep : \A j \in keep : i <= j,
                       CHOOSE i \in keep : \A j \in keep : i >= j)

Contains(s, sub) ==
    \E i \in 0..(Len(s) - Len(sub)) : SubSeq(s, i + 1, i + Len(sub)) = sub

\* hex.DecodeString(s) returns a nil error
HexDecodes(s) == Len(s) % 2 = 0 /\ \A i \in 1..Len(s) : s[i] \in HexDigits

-----------------------------------------------------------------------------
(* Errors.  kind: "nil" (no error), "RPCError" (a *junocashd.RPCError),     *)
(* "wrappedRPCError" (an error that wraps one, found by errors.As),         *)
(* "other" (any other error value).  msg is the RPCError's Message, or the  *)
(* other error's text; text names an error the package itself creates.      *)

NoErr == [kind |-> "nil", text |-> "", msg |-> <<>>]

NewErr(t) == [kind |-> "other", text |-> t, msg |-> <<>>]

\* fmt.Errorf("broadcast: getrawmempool: %w", e): the chain keeps e's kind
Wrap(t, e) ==
    [kind |-> IF e.kind = "RPCError" THEN "wrappedRPCError" ELSE e.kind,
     text |-> t, msg |-> e.msg]

MsgNoSuchTx ==
    <<"N", "o", " ", "s", "u", "c", "h", " ", "m", "e", "m", "p", "o", "o",
      "l", " ", "o", "r", " ", "b", "l", "o", "c", "k", "c", "h", "a", "i",
      "n", " ", "t", "r", "a", "n", "s", "a", "c", "t", "i", "o", "n">>

MsgNoSuchWallet ==
    <<"N", "o", " ", "s", "u", "c", "h", " ", "w", "a", "l", "l", "e", "t">>

MsgMethodNotFound ==
    <<"M", "e", "t", "h", "o", "d", " ", "n", "o", "t", " ", "f", "o", "u",
      "n", "d">>

MsgUnauthorized ==
    <<"4", "0", "1", " ", "U", "n", "a", "u", "t", "h", "o", "r", "i", "z",
      "e", "d">>

no_such_mempool ==
    <<"n", "o", " ", "s", "u", "c", "h", " ", "m", "e", "m", "p", "o", "o",
      "l">>

no_such == <<"n", "o", " ", "s", "u", "c", "h">>

not_found == <<"n", "o", "t", " ", "f", "o", "u", "n", "d">>

RPCErr(m) == [kind |-> "RPCError", text |-> "", msg |-> m]

\* The errors the transport returns in this model
TransportErrs ==
    {RPCErr(MsgNoSuchTx), RPCErr(MsgNoSuchWallet), RPCErr(MsgMethodNotFound),
     RPCErr(MsgUnauthorized),
     [kind |-> "wrappedRPCError", text |-> "", msg |-> MsgNoSuchTx],
     [kind |-> "other", text |-> "", msg |-> MsgNoSuchTx],
     [kind |-> "other", text |-> "", msg |-> MsgUnauthorized]}

-----------------------------------------------------------------------------
(* The package's pure functions *)

ZeroStatus ==
    [TxID |-> <<>>, InMempool |-> FALSE, Confirmations |-> 0, BlockHash |-> <<>>]

\* normalizeHex mutated: the decode check is dropped
normalizeHexNoDecode(s) ==
    LET t == TrimSpace(s)
    IN  IF t = <<>>
        THEN [s |-> <<>>, err |-> NewErr("broadcast: raw tx hex is required")]
        ELSE [s |-> t, err |-> NoErr]

\* normalizeHex mutated: the value is lowercased as well as trimmed
normalizeHexLower(s) ==
    LET t == ToLower(TrimSpace(s))
    IN  IF t = <<>>
        THEN [s |-> <<>>, err |-> NewErr("broadcast: raw tx hex is required")]
        ELSE IF ~HexDecodes(t)
        THEN [s |-> <<>>, err |-> NewErr("broadcast: raw tx hex must be hex")]
        ELSE [s |-> t, err |-> NoErr]

normalizeHex(s) ==
    LET t == TrimSpace(s)
    IN  IF t = <<>>
        THEN [s |-> <<>>, err |-> NewErr("broadcast: raw tx hex is required")]
        ELSE IF ~HexDecodes(t)
        THEN [s |-> <<>>, err |-> NewErr("broadcast: raw tx hex must be hex")]
        ELSE [s |-> t, err |-> NoErr]

\* isNotFoundErr mutated: only the test for "not found" is kept
isNotFoundErrOnlyNotFound(e) ==
    /\ e.kind \in {"RPCError", "wrappedRPCError"}
    /\ Contains(ToLower(e.msg), not_found)

isNotFoundErr(e) ==
    /\ e.kind \in {"RPCError", "wrappedRPCError"}
    /\ LET msg == ToLower(e.msg)
       IN  \/ Contains(msg, no_such_mempool)
           \/ Contains(msg, no_such)
           \/ Contains(msg, not_found)

\* NormalizeID mutated: the id is trimmed and its case is kept
NormalizeIDTrimOnly(s) == TrimSpace(s)

\* strings.ToLower(strings.TrimSpace(s)), lines 68, 76 and 104
NormalizeID(s) == ToLower(TrimSpace(s))

\* ValidTxID mutated: the length is not checked
ValidTxIDNoLen(t) == HexDecodes(t)

\* the negation of the condition of lines 69 and 77
ValidTxID(t) == HexDecodes(t) /\ Len(t) = TxIDLen

\* StatusFromVerbose mutated: InMempool looks at the confirmations alone
StatusFromVerboseConfOnly(id, verbose) ==
    [TxID          |-> id,
     InMempool     |-> verbose.Confirmations = 0,
     Confirmations |-> verbose.Confirmations,
     BlockHash     |-> TrimSpace(verbose.BlockHash)]

\* the TxStatus of lines 88-93
StatusFromVerbose(id, verbose) ==
    [TxID          |-> id,
     InMempool     |-> verbose.Confirmations = 0 /\ verbose.BlockHash = <<>>,
     Confirmations |-> verbose.Confirmations,
     BlockHash     |-> TrimSpace(verbose.BlockHash)]

\* MempoolHas mutated: the listed ids are compared as they are
MempoolHasRaw(mempool, id) ==
    \E i \in 1..Len(mempool) : mempool[i] = id

\* MempoolHas mutated: the first listed id is taken without comparing it
MempoolHasAny(mempool, id) == mempool # <<>>

\* the loop of lines 103-111 finds the id
MempoolHas(mempool, id) ==
    \E i \in 1..Len(mempool) : NormalizeID(mempool[i]) = id

\* MempoolStatus mutated: a listed transaction counts as mined once
MempoolStatusMined(id) ==
    [TxID |-> id, InMempool |-> FALSE, Confirmations |-> 1, BlockHash |-> <<>>]

\* the TxStatus of lines 105-109
MempoolStatus(id) ==
    [TxID |-> id, InMempool |-> TRUE, Confirmations |-> 0, BlockHash |-> <<>>]

\* TargetReached mutated: a target of 0 waits for the first confirmation
TargetReachedMined(f, s, n) == f /\ s.Confirmations >= (IF n = 0 THEN 1 ELSE n)

\* TargetReached mutated: any found status ends the wait
TargetReachedFoundOnly(f, s, n) == f

\* the condition of line 129
TargetReached(f, s, n) == f /\ (n = 0 \/ s.Confirmations >= n)

-----------------------------------------------------------------------------
(* Inputs of the callers and replies of the transport *)

TxB == Rep("b", TxIDLen)

TxC == Rep("c", TxIDLen)

BlockHashE == Rep("e", TxIDLen)

\* txid arguments: canonical, upper case, padded, too short (odd and even
\* length), not hex, empty
TxIDInputs ==
    {TxB, Rep("B", TxIDLen), <<" ">> \o Rep("B", TxIDLen) \o <<"\n">>,
     Rep("b", TxIDLen - 1), Rep("b", TxIDLen - 2), Rep("g", TxIDLen), <<>>}

\* txid arguments of WaitForConfirmations: upper case and padded, too short
WaitInputs == {<<" ">> \o Rep("B", TxIDLen) \o <<"\n">>, Rep("b", TxIDLen - 1)}

\* rawTxHex arguments: empty, blank, not hex, odd length, hex in both cases
RawInputs ==
    {<<>>, <<" ", "\t">>, <<"z", "z">>, <<"0">>, <<"0", "0">>,
     <<"a", "B">>, <<" ", "A", "b", "\n">>, <<"0", " ", "0">>}

\* what SendRawTransaction returns: (txid, error)
SendReplies ==
    [id : {Rep("A", TxIDLen), TxB, <<"\t">> \o Rep("A", TxIDLen) \o <<" ">>,
           <<"b", "a", "d">>, Rep("a", TxIDLen - 1), Rep("g", TxIDLen), <<>>},
     err : {NoErr}]
    \cup [id : {<<>>}, err : TransportErrs]

\* what Call("getrawtransaction") leaves in verbose and returns.  The reply's
\* txid field is decoded too, and never read.
DirectReplies ==
    [verbose : [Confirmations : -1..MaxConf,
                BlockHash : {<<>>, <<" ">>, BlockHashE}],
     err : {NoErr}]
    \cup [verbose : {[Confirmations |-> 0, BlockHash |-> <<>>]},
          err : TransportErrs]

\* ids a listing holds: the id in upper case with white space around it, another id
MempoolIDs == {<<" ">> \o Rep("B", TxIDLen) \o <<"\n">>, TxC}

SeqsUpTo(S, n) == UNION {[1..k -> S] : k \in 0..n}

\* what Call("getrawmempool") leaves in mempool and returns
MempoolReplies ==
    [mempool : SeqsUpTo(MempoolIDs, MaxMempool), err : {NoErr}]
    \cup [mempool : {<<>>}, err : TransportErrs]

CtxErrs == {NewErr("context canceled"), NewErr("context deadline exceeded")}

-----------------------------------------------------------------------------
(* The state machine *)

NoRet == [st |-> ZeroStatus, found |-> FALSE, txid |-> <<>>, err |-> NoErr]

\* what a run of the command line has written to one stream: nothing, the JSON
\* envelope, a bare JSON value or a line of text
Nothing ==
    [kind |-> "none", version |-> "", status |-> "", code |-> "", text |-> "",
     txid |-> <<>>, st |-> ZeroStatus, required |-> 0]

\* the command line before it is run
NoRun ==
    [cmd |-> "none", pc |-> "idle", args |-> <<>>, jsonOut |-> FALSE,
     raw |-> <<>>, txid |-> <<>>, confirmations |-> 0,
     factoryCalls |-> 0, runnerCalls |-> <<>>,
     exit |-> 0, stdout |-> Nothing, stderr |-> Nothing]

\* the locals of a goroutine that has no call in progress
NoCall ==
    [op |-> "idle", pc |-> "idle", arg |-> <<>>, minConf |-> 0, raw |-> <<>>,
     txid |-> <<>>, calls |-> <<>>, nCalls |-> 0, polls |-> 0, st |-> ZeroStatus,
     found |-> FALSE, err |-> NoErr, ret |-> NoRet, ticker |-> "none",
     tick |-> FALSE, ctxErr |-> NoErr, period |-> 0, ticksTaken |-> 0]

\* The state after New(rpc) with a transport and no options
Init ==
    /\ op = "idle"
    /\ pc = "idle"
    /\ arg = <<>>
    /\ minConf = 0
    /\ raw = <<>>
    /\ txid = <<>>
    /\ calls = <<>>
    /\ nCalls = 0
    /\ polls = 0
    /\ st = ZeroStatus
    /\ found = FALSE
    /\ err = NoErr
    /\ ret = NoRet
    /\ ticker = "none"
    /\ tick = FALSE
    /\ ctxErr = NoErr
    /\ period = 0
    /\ ticksTaken = 0
    /\ rpc = "rpc"
    /\ pollInterval = DefaultPollInterval
    /\ newPc = "done"
    /\ newRPC = "rpc"
    /\ newOpts = <<>>
    /\ newIdx = 0
    /\ newErr = NoErr
    /\ parked = NoCall
    /\ cli = NoRun

\* Submit, lines 57-61: normalizeHex and its early return
Submit(rawTxHex) ==
    /\ pc = "idle"
    /\ op' = "Submit"
    /\ arg' = rawTxHex
    /\ LET n == normalizeHex(rawTxHex)
       IN  IF n.err # NoErr
           THEN /\ pc' = "done"
                /\ ret' = [NoRet EXCEPT !.err = n.err]
                /\ raw' = raw
           ELSE /\ pc' = "sendrawtransaction"
                /\ raw' = n.s
                /\ ret' = ret
    /\ UNCHANGED <<client, construction, cli, parked, period, ticksTaken>>
    /\ UNCHANGED <<minConf, txid, calls, nCalls, polls, st, found, err,
                   ticker, tick, ctxErr>>

\* SubmitResult mutated: the node's txid is returned as it came
SubmitResultRaw(reply) ==
    IF reply.err # NoErr
    THEN [NoRet EXCEPT !.err = reply.err]
    ELSE [NoRet EXCEPT !.txid = reply.id]

\* SubmitResult mutated: the invalid id is returned along with the error
SubmitResultErrWithTxid(reply) ==
    IF reply.err # NoErr
    THEN [NoRet EXCEPT !.err = reply.err]
    ELSE LET id == NormalizeID(reply.id)
         IN  IF ~ValidTxID(id)
             THEN [NoRet EXCEPT !.err = NewErr("broadcast: node returned invalid txid"),
                                !.txid = id]
             ELSE [NoRet EXCEPT !.txid = id]

\* Submit, lines 64-72: what Submit returns for the transport's reply
SubmitResult(reply) ==
    IF reply.err # NoErr
    THEN [NoRet EXCEPT !.err = reply.err]
    ELSE LET id == NormalizeID(reply.id)
         IN  IF ~ValidTxID(id)
             THEN [NoRet EXCEPT !.err = NewErr("broadcast: node returned invalid txid")]
             ELSE [NoRet EXCEPT !.txid = id]

\* SubmitSendRawTransaction mutated: a failed send is tried again
SubmitSendRawTransactionRetry ==
    /\ op = "Submit" /\ pc = "sendrawtransaction"
    /\ \E reply \in SendReplies :
          /\ calls' = Append(calls, [method |-> "sendrawtransaction",
                                     param |-> raw, reply |-> reply])
          /\ ret' = SubmitResult(reply)
          /\ pc' = IF reply.err # NoErr /\ nCalls < 1
                   THEN "sendrawtransaction" ELSE "done"
    /\ nCalls' = nCalls + 1
    /\ UNCHANGED <<client, construction, cli, parked, period, ticksTaken>>
    /\ UNCHANGED <<op, arg, minConf, raw, txid, polls, st, found, err,
                   ticker, tick, ctxErr>>

\* Submit, lines 63-72: the one SendRawTransaction call and the return
SubmitSendRawTransaction ==
    /\ op = "Submit" /\ pc = "sendrawtransaction"
    /\ \E reply \in SendReplies :
          /\ calls' = Append(calls, [method |-> "sendrawtransaction",
                                     param |-> raw, reply |-> reply])
          /\ ret' = SubmitResult(reply)
    /\ nCalls' = nCalls + 1
    /\ pc' = "done"
    /\ UNCHANGED <<client, construction, cli, parked, period, ticksTaken>>
    /\ UNCHANGED <<op, arg, minConf, raw, txid, polls, st, found, err,
                   ticker, tick, ctxErr>>

\* StatusReturn mutated: WaitForConfirmations polls again after a Status error
StatusReturnRetryErr(o, n, s, f, e) ==
    /\ st' = s
    /\ found' = f
    /\ err' = e
    /\ IF o = "Status"
       THEN /\ pc' = "done"
            /\ ret' = [NoRet EXCEPT !.st = s, !.found = f, !.err = e]
            /\ ticker' = ticker
       ELSE IF e = NoErr /\ TargetReached(f, s, n)
       THEN /\ pc' = "done"
            /\ ret' = [NoRet EXCEPT !.st = s]
            /\ ticker' = "stopped"
       ELSE /\ pc' = "select"
            /\ ret' = ret
            /\ ticker' = "running"

\* A return of Status with (s, f, e), lines 78, 93, 95, 101, 109, 113.  Called by
\* the caller (o = "Status") the result is the operation's; called by
\* WaitForConfirmations (o = "Wait") lines 126-131 follow: an error or a reached
\* target returns and the deferred ticker.Stop runs, else the select is next.
StatusReturn(o, n, s, f, e) ==
    /\ st' = s
    /\ found' = f
    /\ err' = e
    /\ IF o = "Status"
       THEN /\ pc' = "done"
            /\ ret' = [NoRet EXCEPT !.st = s, !.found = f, !.err = e]
            /\ ticker' = ticker
       ELSE IF e # NoErr
       THEN /\ pc' = "done"
            /\ ret' = [NoRet EXCEPT !.err = e]
            /\ ticker' = "stopped"
       ELSE IF TargetReached(f, s, n)
       THEN /\ pc' = "done"
            /\ ret' = [NoRet EXCEPT !.st = s]
            /\ ticker' = "stopped"
       ELSE /\ pc' = "select"
            /\ ret' = ret
            /\ ticker' = "running"

\* Status, lines 76-79: normalise and validate the id; no transport call yet
StatusBegin(o, n, id) ==
    LET t == NormalizeID(id)
    IN  /\ txid' = t
        /\ calls' = <<>>
        /\ polls' = polls + 1
        /\ IF ~ValidTxID(t)
           THEN StatusReturn(o, n, ZeroStatus, FALSE,
                             NewErr("broadcast: txid must be 32-byte hex"))
           ELSE /\ pc' = "getrawtransaction"
                /\ ticker' = IF o = "Wait" THEN "running" ELSE ticker
                /\ UNCHANGED <<st, found, err, ret>>

\* Status called by the caller, lines 75-79
Status(id) ==
    /\ pc = "idle"
    /\ op' = "Status"
    /\ arg' = id
    /\ minConf' = minConf
    /\ StatusBegin("Status", minConf, id)
    /\ UNCHANGED <<client, construction, cli, parked, period, ticksTaken>>
    /\ UNCHANGED <<raw, nCalls, tick, ctxErr>>

\* Status, lines 87-96: the direct lookup and its three outcomes
StatusGetRawTransaction ==
    /\ op \in {"Status", "Wait"} /\ pc = "getrawtransaction"
    /\ \E reply \in DirectReplies :
          /\ calls' = Append(calls, [method |-> "getrawtransaction",
                                     param |-> <<txid, 1>>, reply |-> reply])
          /\ IF reply.err = NoErr
             THEN StatusReturn(op, minConf, StatusFromVerbose(txid, reply.verbose), TRUE, NoErr)
             ELSE IF ~isNotFoundErr(reply.err)
             THEN StatusReturn(op, minConf, ZeroStatus, FALSE, reply.err)
             ELSE /\ pc' = "getrawmempool"
                  /\ UNCHANGED <<st, found, err, ret, ticker>>
    /\ nCalls' = nCalls + 1
    /\ UNCHANGED <<client, construction, cli, parked, period, ticksTaken>>
    /\ UNCHANGED <<op, arg, minConf, raw, txid, polls, tick, ctxErr>>

\* StatusGetRawMempool mutated: a not-found error of the listing counts as an
\* empty listing
StatusGetRawMempoolNotFoundEmpty ==
    /\ op \in {"Status", "Wait"} /\ pc = "getrawmempool"
    /\ \E reply \in MempoolReplies :
          /\ calls' = Append(calls, [method |-> "getrawmempool",
                                     param |-> <<FALSE>>, reply |-> reply])
          /\ IF reply.err # NoErr /\ ~isNotFoundErr(reply.err)
             THEN StatusReturn(op, minConf, ZeroStatus, FALSE,
                               Wrap("broadcast: getrawmempool", reply.err))
             ELSE IF MempoolHas(reply.mempool, txid)
             THEN StatusReturn(op, minConf, MempoolStatus(txid), TRUE, NoErr)
             ELSE StatusReturn(op, minConf, ZeroStatus, FALSE, NoErr)
    /\ nCalls' = nCalls + 1
    /\ UNCHANGED <<client, construction, cli, parked, period, ticksTaken>>
    /\ UNCHANGED <<op, arg, minConf, raw, txid, polls, tick, ctxErr>>

\* Status, lines 99-113: the mempool listing and the search for the id
StatusGetRawMempool ==
    /\ op \in {"Status", "Wait"} /\ pc = "getrawmempool"
    /\ \E reply \in MempoolReplies :
          /\ calls' = Append(calls, [method |-> "getrawmempool",
                                     param |-> <<FALSE>>, reply |-> reply])
          /\ IF reply.err # NoErr
             THEN StatusReturn(op, minConf, ZeroStatus, FALSE,
                               Wrap("broadcast: getrawmempool", reply.err))
             ELSE IF MempoolHas(reply.mempool, txid)
             THEN StatusReturn(op, minConf, MempoolStatus(txid), TRUE, NoErr)
             ELSE StatusReturn(op, minConf, ZeroStatus, FALSE, NoErr)
    /\ nCalls' = nCalls + 1
    /\ UNCHANGED <<client, construction, cli, parked, period, ticksTaken>>
    /\ UNCHANGED <<op, arg, minConf, raw, txid, polls, tick, ctxErr>>

\* WaitForConfirmations mutated: the check of confirmations < 0 is missing
WaitForConfirmationsNoCheck(id, confirmations) ==
    /\ pc = "idle"
    /\ op' = "Wait"
    /\ arg' = id
    /\ minConf' = confirmations
    /\ period' = pollInterval
    /\ StatusBegin("Wait", confirmations, id)
    /\ UNCHANGED <<client, construction, cli, parked, ticksTaken>>
    /\ UNCHANGED <<raw, nCalls, tick, ctxErr>>

\* WaitForConfirmations mutated: a context that is done is honoured before the
\* first poll
WaitForConfirmationsCtxFirst(id, confirmations) ==
    /\ pc = "idle"
    /\ op' = "Wait"
    /\ arg' = id
    /\ minConf' = confirmations
    /\ IF confirmations < 0
       THEN /\ pc' = "done"
            /\ ret' = [NoRet EXCEPT
                         !.err = NewErr("broadcast: confirmations must be >= 0")]
            /\ period' = period
            /\ UNCHANGED <<txid, calls, polls, st, found, err, ticker>>
       ELSE IF ctxErr # NoErr
       THEN /\ pc' = "done"
            /\ ret' = [NoRet EXCEPT !.err = ctxErr]
            /\ period' = pollInterval
            /\ ticker' = "stopped"
            /\ UNCHANGED <<txid, calls, polls, st, found, err>>
       ELSE /\ period' = pollInterval
            /\ StatusBegin("Wait", confirmations, id)
    /\ UNCHANGED <<client, construction, cli, parked, ticksTaken>>
    /\ UNCHANGED <<raw, nCalls, tick, ctxErr>>

\* WaitForConfirmations, lines 116-125: the argument check, the ticker and the
\* first Status call up to its first transport call
WaitForConfirmations(id, confirmations) ==
    /\ pc = "idle"
    /\ op' = "Wait"
    /\ arg' = id
    /\ minConf' = confirmations
    /\ IF confirmations < 0
       THEN /\ pc' = "done"
            /\ ret' = [NoRet EXCEPT
                         !.err = NewErr("broadcast: confirmations must be >= 0")]
            /\ period' = period
            /\ UNCHANGED <<txid, calls, polls, st, found, err, ticker>>
       ELSE /\ period' = pollInterval
            /\ StatusBegin("Wait", confirmations, id)
    /\ UNCHANGED <<client, construction, cli, parked, ticksTaken>>
    /\ UNCHANGED <<raw, nCalls, tick, ctxErr>>

\* SelectCtxDone mutated: the return on cancellation leaves the ticker running
SelectCtxDoneNoStop ==
    /\ op = "Wait" /\ pc = "select"
    /\ ctxErr # NoErr
    /\ pc' = "done"
    /\ ret' = [NoRet EXCEPT !.err = ctxErr]
    /\ UNCHANGED <<client, construction, cli, parked, period, ticksTaken>>
    /\ UNCHANGED <<op, arg, minConf, raw, txid, calls, nCalls, polls, st, found,
                   err, tick, ctxErr, ticker>>

\* SelectCtxDone mutated: the ctx.Done() case goes round the loop again
SelectCtxDoneContinue ==
    /\ op = "Wait" /\ pc = "select"
    /\ ctxErr # NoErr
    /\ tick
    /\ tick' = FALSE
    /\ UNCHANGED <<client, construction, cli, parked, period, ticksTaken>>
    /\ UNCHANGED <<op, pc, arg, minConf, raw, txid, calls, nCalls, polls, st,
                   found, err, ret, ticker, ctxErr>>

\* WaitForConfirmations, lines 133-135: the select takes ctx.Done()
SelectCtxDone ==
    /\ op = "Wait" /\ pc = "select"
    /\ ctxErr # NoErr
    /\ pc' = "done"
    /\ ret' = [NoRet EXCEPT !.err = ctxErr]
    /\ ticker' = "stopped"
    /\ UNCHANGED <<client, construction, cli, parked, period, ticksTaken>>
    /\ UNCHANGED <<op, arg, minConf, raw, txid, calls, nCalls, polls, st, found,
                   err, tick, ctxErr>>

\* WaitForConfirmations, lines 133-137 and 124-125: the select takes the tick
\* and the loop calls Status again
SelectTick ==
    /\ op = "Wait" /\ pc = "select"
    /\ tick
    /\ polls < MaxPolls
    /\ tick' = FALSE
    /\ ticksTaken' = ticksTaken + 1
    /\ StatusBegin("Wait", minConf, arg)
    /\ UNCHANGED <<client, construction, cli, parked, period>>
    /\ UNCHANGED <<op, arg, minConf, raw, nCalls, ctxErr>>

\* The runtime's timer puts a tick in ticker.C (capacity 1)
TimerFire ==
    /\ ticker = "running"
    /\ ~tick
    /\ tick' = TRUE
    /\ UNCHANGED <<client, construction, cli, parked, period, ticksTaken>>
    /\ UNCHANGED <<op, pc, arg, minConf, raw, txid, calls, nCalls, polls, st,
                   found, err, ret, ticker, ctxErr>>

\* The caller cancels the context, or its deadline passes
Cancel ==
    /\ ctxErr = NoErr
    /\ pc # "done"
    /\ \E e \in CtxErrs : ctxErr' = e
    /\ UNCHANGED <<client, construction, cli, parked, period, ticksTaken>>
    /\ UNCHANGED <<op, pc, arg, minConf, raw, txid, calls, nCalls, polls, st,
                   found, err, ret, ticker, tick>>

\* The caller takes the result; the next call starts with a fresh context
Return ==
    /\ pc = "done"
    /\ op' = "idle"
    /\ pc' = "idle"
    /\ arg' = <<>>
    /\ minConf' = 0
    /\ raw' = <<>>
    /\ txid' = <<>>
    /\ calls' = <<>>
    /\ nCalls' = 0
    /\ polls' = 0
    /\ st' = ZeroStatus
    /\ found' = FALSE
    /\ err' = NoErr
    /\ ret' = NoRet
    /\ ticker' = "none"
    /\ tick' = FALSE
    /\ ctxErr' = NoErr
    /\ period' = 0
    /\ ticksTaken' = 0
    /\ UNCHANGED <<client, construction, cli, parked>>

Next ==
    \/ \E rawTxHex \in RawInputs : Submit(rawTxHex)
    \/ SubmitSendRawTransaction
    \/ \E id \in TxIDInputs : Status(id)
    \/ StatusGetRawTransaction
    \/ StatusGetRawMempool
    \/ \E id \in WaitInputs, n \in -1..MaxConf : WaitForConfirmations(id, n)
    \/ SelectCtxDone
    \/ SelectTick
    \/ TimerFire
    \/ Cancel
    \/ Return

Spec == Init /\ [][Next]_vars

-----------------------------------------------------------------------------
(* Construction: New and its options.  An Option is nil or the closure that  *)
(* WithPollInterval(d) returns; durations are in milliseconds.               *)

OptNil == [kind |-> "nil", d |-> 0]

\* WithPollInterval, line 33: the closure keeps d
WithPollInterval(d) == [kind |-> "WithPollInterval", d |-> d]

Durations == {-1, 0, 1, 50}

Options == {OptNil} \cup {WithPollInterval(d) : d \in Durations}

\* ApplyOption mutated: the closure stores d whatever its sign
ApplyOptionAnySign(opt, interval) ==
    IF opt.kind = "nil" THEN interval ELSE opt.d

\* lines 50-52 and 34-38: the poll interval after opt, nil skipped, has run
ApplyOption(opt, interval) ==
    IF opt.kind = "nil" THEN interval
    ELSE IF opt.d > 0 THEN opt.d ELSE interval

\* Before New: there is no Client
InitNew ==
    /\ op = "idle"
    /\ pc = "idle"
    /\ arg = <<>>
    /\ minConf = 0
    /\ raw = <<>>
    /\ txid = <<>>
    /\ calls = <<>>
    /\ nCalls = 0
    /\ polls = 0
    /\ st = ZeroStatus
    /\ found = FALSE
    /\ err = NoErr
    /\ ret = NoRet
    /\ ticker = "none"
    /\ tick = FALSE
    /\ ctxErr = NoErr
    /\ period = 0
    /\ ticksTaken = 0
    /\ rpc = "nil"
    /\ pollInterval = 0
    /\ newPc = "start"
    /\ newRPC = "nil"
    /\ newOpts = <<>>
    /\ newIdx = 0
    /\ newErr = NoErr
    /\ parked = NoCall
    /\ cli = NoRun

\* New, lines 41-48: the nil check and the Client with the default interval
New(r, opts) ==
    /\ newPc = "start"
    /\ newRPC' = r
    /\ newOpts' = opts
    /\ IF r = "nil"
       THEN /\ newPc' = "done"
            /\ newErr' = NewErr("broadcast: rpc is nil")
            /\ UNCHANGED <<rpc, pollInterval>>
       ELSE /\ newPc' = "opts"
            /\ newErr' = NoErr
            /\ rpc' = r
            /\ pollInterval' = DefaultPollInterval
    /\ UNCHANGED <<locals, cli, parked, newIdx>>

\* New, lines 49-53: one iteration of the loop over opts
NewOption ==
    /\ newPc = "opts"
    /\ newIdx < Len(newOpts)
    /\ newIdx' = newIdx + 1
    /\ pollInterval' = ApplyOption(newOpts[newIdx + 1], pollInterval)
    /\ UNCHANGED <<locals, cli, parked, rpc, newPc, newRPC, newOpts, newErr>>

\* New, line 54: the loop is over and the Client is returned
NewReturn ==
    /\ newPc = "opts"
    /\ newIdx = Len(newOpts)
    /\ newPc' = "done"
    /\ UNCHANGED <<locals, cli, parked, client, newRPC, newOpts, newIdx, newErr>>

NextNew ==
    \/ \E r \in {"nil", "rpc"}, opts \in SeqsUpTo(Options, MaxOpts) : New(r, opts)
    \/ NewOption
    \/ NewReturn

SpecNew == InitNew /\ [][NextNew]_vars

-----------------------------------------------------------------------------
(* Two goroutines calling the methods of one Client.  Every variable of      *)
(* Submit, Status and WaitForConfirmations is a local of the call, so each   *)
(* goroutine has its own: the running goroutine's are the variables of       *)
(* locals, the other goroutine's are the record parked, and the scheduler    *)
(* may exchange the two before any step.  The Client's fields are the only   *)
(* state both goroutines reach.                                              *)

\* the running goroutine's locals as a record
Frame ==
    [op |-> op, pc |-> pc, arg |-> arg, minConf |-> minConf, raw |-> raw,
     txid |-> txid, calls |-> calls, nCalls |-> nCalls, polls |-> polls,
     st |-> st, found |-> found, err |-> err, ret |-> ret, ticker |-> ticker,
     tick |-> tick, ctxErr |-> ctxErr, period |-> period,
     ticksTaken |-> ticksTaken]

\* Switch mutated: txid is one variable that both goroutines write and read
SwitchSharedTxid ==
    /\ parked' = Frame
    /\ op' = parked.op
    /\ pc' = parked.pc
    /\ arg' = parked.arg
    /\ minConf' = parked.minConf
    /\ raw' = parked.raw
    /\ txid' = txid
    /\ calls' = parked.calls
    /\ nCalls' = parked.nCalls
    /\ polls' = parked.polls
    /\ st' = parked.st
    /\ found' = parked.found
    /\ err' = parked.err
    /\ ret' = parked.ret
    /\ ticker' = parked.ticker
    /\ tick' = parked.tick
    /\ ctxErr' = parked.ctxErr
    /\ period' = parked.period
    /\ ticksTaken' = parked.ticksTaken
    /\ UNCHANGED <<client, construction, cli>>

\* The scheduler lets the other goroutine run: each finds its locals as it left them
Switch ==
    /\ parked' = Frame
    /\ op' = parked.op
    /\ pc' = parked.pc
    /\ arg' = parked.arg
    /\ minConf' = parked.minConf
    /\ raw' = parked.raw
    /\ txid' = parked.txid
    /\ calls' = parked.calls
    /\ nCalls' = parked.nCalls
    /\ polls' = parked.polls
    /\ st' = parked.st
    /\ found' = parked.found
    /\ err' = parked.err
    /\ ret' = parked.ret
    /\ ticker' = parked.ticker
    /\ tick' = parked.tick
    /\ ctxErr' = parked.ctxErr
    /\ period' = parked.period
    /\ ticksTaken' = parked.ticksTaken
    /\ UNCHANGED <<client, construction, cli>>

\* The arguments and the replies of the two-goroutine runs
ConcRawInputs == {<<" ", "A", "b", "\n">>}

ConcTxIDInputs == {<<" ">> \o Rep("B", TxIDLen) \o <<"\n">>, TxC}

ConcSendReplies ==
    {r \in SendReplies :
        /\ r.id \in {<<>>, TxB}
        /\ r.err \in {NoErr, RPCErr(MsgUnauthorized)}}

\* the transaction mined with MaxConf confirmations, or not known to the index
ConcDirectReplies ==
    {r \in DirectReplies :
        \/ r.err = NoErr /\ r.verbose = [Confirmations |-> MaxConf, BlockHash |-> BlockHashE]
        \/ r.err = RPCErr(MsgNoSuchTx)}

ConcMempoolReplies ==
    {r \in MempoolReplies :
        /\ r.mempool \in {<<>>, <<TxC>>}
        /\ r.err \in {NoErr, RPCErr(MsgUnauthorized)}}

\* the replies the running goroutine has had are among those above, and a
\* WaitForConfirmations call polls at most twice
ConcBound ==
    /\ polls < MaxPolls
    /\ \A i \in DOMAIN calls :
        CASE calls[i].method = "sendrawtransaction" -> calls[i].reply \in ConcSendReplies
          [] calls[i].method = "getrawtransaction" -> calls[i].reply \in ConcDirectReplies
          [] OTHER -> calls[i].reply \in ConcMempoolReplies

NextConc ==
    \/ \E rawTxHex \in ConcRawInputs : Submit(rawTxHex)
    \/ SubmitSendRawTransaction /\ ConcBound'
    \/ \E id \in ConcTxIDInputs : Status(id)
    \/ StatusGetRawTransaction /\ ConcBound'
    \/ StatusGetRawMempool /\ ConcBound'
    \/ WaitForConfirmations(TxC, MaxConf)
    \/ SelectCtxDone
    \/ SelectTick /\ ConcBound'
    \/ TimerFire
    \/ Cancel /\ ctxErr' = NewErr("context canceled") /\ pc = "select"
    \/ Return
    \/ Switch

SpecConc == Init /\ [][NextConc]_vars

-----------------------------------------------------------------------------
(* WaitForConfirmations with a loop that may go on for ever.  In Spec the    *)
(* guard of SelectTick stops the loop after MaxPolls polls; here the loop    *)
(* goes on and the counters start again.  The transport answers every call   *)
(* (weak fairness of the two transport steps), the caller's cancellation     *)
(* comes (weak fairness of Cancel), and the select, which picks at random    *)
(* among its ready cases, does not leave ctx.Done() out for ever (strong     *)
(* fairness of SelectCtxDone).                                               *)

\* WaitForConfirmations, lines 133-137 and 124-125: the select takes the tick
\* after MaxPolls polls; polls, nCalls and ticksTaken count from this poll on
SelectTickOn ==
    /\ op = "Wait" /\ pc = "select"
    /\ tick
    /\ polls = MaxPolls
    /\ tick' = FALSE
    /\ txid' = NormalizeID(arg)
    /\ calls' = <<>>
    /\ polls' = 1
    /\ nCalls' = 0
    /\ ticksTaken' = 0
    /\ pc' = "getrawtransaction"
    /\ ticker' = "running"
    /\ UNCHANGED <<client, construction, cli, parked, period>>
    /\ UNCHANGED <<op, arg, minConf, raw, st, found, err, ret, ctxErr>>

NextLive ==
    \/ \E id \in WaitInputs, n \in -1..MaxConf : WaitForConfirmations(id, n)
    \/ StatusGetRawTransaction
    \/ StatusGetRawMempool
    \/ SelectCtxDone
    \/ SelectTick
    \/ SelectTickOn
    \/ TimerFire
    \/ Cancel
    \/ Return

SpecLive ==
    /\ Init
    /\ [][NextLive]_vars
    /\ WF_vars(StatusGetRawTransaction)
    /\ WF_vars(StatusGetRawMempool)
    /\ WF_vars(Cancel)
    /\ SF_vars(SelectCtxDone)

-----------------------------------------------------------------------------
(* The command line, internal/cli/cli.go.  The Runner and the Factory are    *)
(* arguments of RunWithIO: what they return is the environment's choice.     *)
(* args holds the flags of one invocation: whether fs.Parse accepts them,    *)
(* whether --json is among them, and the values the flag variables get.      *)

URLs == {<<>>, <<" ">>, <<"u">>}

HexFlags == {<<>>, <<" ">>, <<" ", "a", "B">>}

FileFlags == {<<>>, <<"f", " ">>}

\* what os.ReadFile returns
FileReads ==
    {[content |-> <<"c", "D", "\n">>, err |-> ""], [content |-> <<>>, err |-> ""],
     [content |-> <<>>, err |-> "no such file or directory"]}

PollStrs == {"500ms", "soon"}

TxIDFlags == {<<>>, <<" ">>, <<" ", "A", "b">>}

SubmitArgs ==
    [parses : BOOLEAN, json : BOOLEAN, rpcURL : URLs, envURL : {<<>>, <<"u">>},
     rawTxHex : HexFlags, rawTxFile : FileFlags, confirmations : -1..MaxConf,
     pollStr : PollStrs, txid : {<<>>}]

StatusArgs ==
    [parses : BOOLEAN, json : BOOLEAN, rpcURL : URLs, envURL : {<<>>, <<"u">>},
     rawTxHex : {<<>>}, rawTxFile : {<<>>}, confirmations : {0},
     pollStr : PollStrs, txid : TxIDFlags]

\* what the Factory returns
FactoryReturns == {"runner", "error"}

\* what Runner.Submit returns: (txid, err)
RunnerSubmitReturns ==
    {[st |-> ZeroStatus, found |-> FALSE, txid |-> <<"a", "b">>, err |-> ""],
     [st |-> ZeroStatus, found |-> FALSE, txid |-> <<>>, err |-> "rpc failed"]}

RunnerStatuses ==
    {[TxID |-> <<"a", "b">>, InMempool |-> TRUE, Confirmations |-> 0, BlockHash |-> <<>>],
     [TxID |-> <<"a", "b">>, InMempool |-> FALSE, Confirmations |-> MaxConf,
      BlockHash |-> <<"e">>]}

\* what Runner.WaitForConfirmations returns: (st, err)
RunnerWaitReturns ==
    [st : RunnerStatuses, found : {FALSE}, txid : {<<>>}, err : {""}]
    \cup [st : {ZeroStatus}, found : {FALSE}, txid : {<<>>},
          err : {"context deadline exceeded"}]

\* what Runner.Status returns: (st, found, err)
RunnerStatusReturns ==
    [st : RunnerStatuses, found : {TRUE}, txid : {<<>>}, err : {""}]
    \cup [st : {ZeroStatus}, found : BOOLEAN, txid : {<<>>}, err : {"", "rpc failed"}]

\* time.ParseDuration returns a nil error
ParsesAsDuration(str) == str = "500ms"

\* rpcConfigFromFlags, lines 292-309, for the url
rpcConfigFromFlags(url, env) ==
    LET u == IF TrimSpace(url) = <<>> THEN env ELSE url
    IN  IF TrimSpace(u) = <<>>
        THEN [url |-> <<>>, err |-> "rpc-url is required (or set JUNO_RPC_URL)"]
        ELSE [url |-> TrimSpace(u), err |-> ""]

\* loadHexInput mutated: with both sources the hex value is taken
loadHexInputNoConflict(hexValue, filePath, file) ==
    IF TrimSpace(hexValue) = <<>> /\ TrimSpace(filePath) = <<>>
    THEN [s |-> <<>>, err |-> "raw-tx-hex is required (or use --raw-tx-file)"]
    ELSE IF TrimSpace(hexValue) # <<>>
    THEN [s |-> TrimSpace(hexValue), err |-> ""]
    ELSE IF file.err # ""
    THEN [s |-> <<>>, err |-> "read file"]
    ELSE [s |-> TrimSpace(file.content), err |-> ""]

\* loadHexInput, lines 311-335; file is what os.ReadFile returns if it is called
loadHexInput(hexValue, filePath, file) ==
    LET sources == (IF TrimSpace(hexValue) # <<>> THEN 1 ELSE 0)
                   + (IF TrimSpace(filePath) # <<>> THEN 1 ELSE 0)
    IN  IF sources = 0
        THEN [s |-> <<>>, err |-> "raw-tx-hex is required (or use --raw-tx-file)"]
        ELSE IF sources > 1
        THEN [s |-> <<>>,
              err |-> "input source conflict (use only one of --raw-tx-hex, --raw-tx-file)"]
        ELSE IF TrimSpace(hexValue) # <<>>
        THEN [s |-> TrimSpace(hexValue), err |-> ""]
        ELSE IF file.err # ""
        THEN [s |-> <<>>, err |-> "read file"]
        ELSE [s |-> TrimSpace(file.content), err |-> ""]

\* writeOK, lines 337-349: the payload bare, or in the envelope with --json
writeOK(jsonOut, payload) ==
    [exit |-> 0,
     stdout |-> IF jsonOut
                THEN [payload EXCEPT !.kind = "envelope", !.version = "v1", !.status = "ok"]
                ELSE [payload EXCEPT !.kind = "json"],
     stderr |-> Nothing]

\* writeErr, lines 351-368
writeErr(jsonOut, code, msg) ==
    IF jsonOut
    THEN [exit |-> 1,
          stdout |-> [Nothing EXCEPT !.kind = "envelope", !.version = "v1",
                                     !.status = "err", !.code = code, !.text = msg],
          stderr |-> Nothing]
    ELSE [exit |-> 1,
          stdout |-> Nothing,
          stderr |-> [Nothing EXCEPT !.kind = "text",
                                     !.text = IF msg = "" THEN code ELSE msg]]

\* fs.Parse failed, lines 94-97 and 168-171: the error goes to stderr
UsageError ==
    [exit |-> 2, stdout |-> Nothing,
     stderr |-> [Nothing EXCEPT !.kind = "text", !.text = "flag error"]]

\* the command returns what o holds
Finish(c, o) ==
    [c EXCEPT !.pc = "exit", !.exit = o.exit, !.stdout = o.stdout, !.stderr = o.stderr]

\* runSubmit, lines 74-116: from the flags to the call of the factory
runSubmit(args, file) ==
    /\ cli.pc = "idle"
    /\ LET c == [cli EXCEPT !.cmd = "submit", !.args = args]
           cfg == rpcConfigFromFlags(args.rpcURL, args.envURL)
           in == loadHexInput(args.rawTxHex, args.rawTxFile, file)
       IN  cli' =
             IF ~args.parses THEN Finish(c, UsageError)
             ELSE IF cfg.err # ""
             THEN Finish(c, writeErr(args.json, "invalid_request", cfg.err))
             ELSE IF in.err # ""
             THEN Finish(c, writeErr(args.json, "invalid_request", in.err))
             ELSE IF ~ParsesAsDuration(args.pollStr)
             THEN Finish(c, writeErr(args.json, "invalid_request", "poll must be a duration"))
             ELSE [c EXCEPT !.pc = "factory", !.jsonOut = args.json, !.raw = in.s,
                            !.confirmations = args.confirmations,
                            !.factoryCalls = @ + 1]
    /\ UNCHANGED <<locals, client, construction, parked>>

\* runStatus, lines 150-192: from the flags to the call of the factory
runStatus(args) ==
    /\ cli.pc = "idle"
    /\ LET c == [cli EXCEPT !.cmd = "status", !.args = args]
           cfg == rpcConfigFromFlags(args.rpcURL, args.envURL)
       IN  cli' =
             IF ~args.parses THEN Finish(c, UsageError)
             ELSE IF cfg.err # ""
             THEN Finish(c, writeErr(args.json, "invalid_request", cfg.err))
             ELSE IF TrimSpace(args.txid) = <<>>
             THEN Finish(c, writeErr(args.json, "invalid_request", "txid is required"))
             ELSE IF ~ParsesAsDuration(args.pollStr)
             THEN Finish(c, writeErr(args.json, "invalid_request", "poll must be a duration"))
             ELSE [c EXCEPT !.pc = "factory", !.jsonOut = args.json,
                            !.txid = TrimSpace(args.txid),
                            !.factoryCalls = @ + 1]
    /\ UNCHANGED <<locals, client, construction, parked>>

\* lines 116-119 and 192-195: the factory returns
FactoryReturn ==
    /\ cli.pc = "factory"
    /\ \E r \in FactoryReturns :
          cli' = IF r = "error"
                 THEN Finish(cli, writeErr(cli.jsonOut, "internal", "factory failed"))
                 ELSE [cli EXCEPT !.pc = IF cli.cmd = "submit" THEN "Submit" ELSE "Status"]
    /\ UNCHANGED <<locals, client, construction, parked>>

\* RunnerSubmit mutated: the wait is made for every count >= 0
RunnerSubmitWaitsAtZero ==
    /\ cli.cmd = "submit" /\ cli.pc = "Submit"
    /\ \E r \in RunnerSubmitReturns :
         LET c == [cli EXCEPT !.runnerCalls =
                      Append(@, [method |-> "Submit", arg |-> cli.raw, n |-> 0, ret |-> r])]
         IN  cli' =
               IF r.err # ""
               THEN Finish(c, writeErr(c.jsonOut, "node_rpc_error", r.err))
               ELSE IF c.confirmations >= 0
               THEN [c EXCEPT !.pc = "WaitForConfirmations", !.txid = r.txid]
               ELSE Finish([c EXCEPT !.txid = r.txid],
                      IF c.jsonOut
                      THEN writeOK(TRUE, [Nothing EXCEPT !.txid = r.txid])
                      ELSE [exit |-> 0, stderr |-> Nothing,
                            stdout |-> [Nothing EXCEPT !.kind = "text", !.txid = r.txid]])
    /\ UNCHANGED <<locals, client, construction, parked>>

\* runSubmit, lines 123-128 and 143-147: r.Submit and what follows its return
RunnerSubmit ==
    /\ cli.cmd = "submit" /\ cli.pc = "Submit"
    /\ \E r \in RunnerSubmitReturns :
         LET c == [cli EXCEPT !.runnerCalls =
                      Append(@, [method |-> "Submit", arg |-> cli.raw, n |-> 0, ret |-> r])]
         IN  cli' =
               IF r.err # ""
               THEN Finish(c, writeErr(c.jsonOut, "node_rpc_error", r.err))
               ELSE IF c.confirmations > 0
               THEN [c EXCEPT !.pc = "WaitForConfirmations", !.txid = r.txid]
               ELSE Finish([c EXCEPT !.txid = r.txid],
                      IF c.jsonOut
                      THEN writeOK(TRUE, [Nothing EXCEPT !.txid = r.txid])
                      ELSE [exit |-> 0, stderr |-> Nothing,
                            stdout |-> [Nothing EXCEPT !.kind = "text", !.txid = r.txid]])
    /\ UNCHANGED <<locals, client, construction, parked>>

\* runSubmit, lines 129-140: r.WaitForConfirmations and what follows its return
RunnerWaitForConfirmations ==
    /\ cli.cmd = "submit" /\ cli.pc = "WaitForConfirmations"
    /\ \E r \in RunnerWaitReturns :
         LET c == [cli EXCEPT !.runnerCalls =
                      Append(@, [method |-> "WaitForConfirmations",
                                 arg |-> cli.txid, n |-> cli.confirmations,
                                 ret |-> r])]
         IN  cli' =
               IF r.err # ""
               THEN Finish(c, writeErr(c.jsonOut, "node_rpc_error", r.err))
               ELSE Finish(c, writeOK(c.jsonOut,
                              [Nothing EXCEPT !.txid = c.txid, !.st = r.st,
                                              !.required = c.confirmations]))
    /\ UNCHANGED <<locals, client, construction, parked>>

\* RunnerStatus mutated: found is not looked at
RunnerStatusIgnoresFound ==
    /\ cli.cmd = "status" /\ cli.pc = "Status"
    /\ \E r \in RunnerStatusReturns :
         LET c == [cli EXCEPT !.runnerCalls =
                      Append(@, [method |-> "Status", arg |-> cli.txid, n |-> 0, ret |-> r])]
         IN  cli' =
               IF r.err # ""
               THEN Finish(c, writeErr(c.jsonOut, "node_rpc_error", r.err))
               ELSE Finish(c, writeOK(c.jsonOut, [Nothing EXCEPT !.st = r.st]))
    /\ UNCHANGED <<locals, client, construction, parked>>

\* runStatus, lines 196-204: r.Status and what follows its return
RunnerStatus ==
    /\ cli.cmd = "status" /\ cli.pc = "Status"
    /\ \E r \in RunnerStatusReturns :
         LET c == [cli EXCEPT !.runnerCalls =
                      Append(@, [method |-> "Status", arg |-> cli.txid, n |-> 0, ret |-> r])]
         IN  cli' =
               IF r.err # ""
               THEN Finish(c, writeErr(c.jsonOut, "node_rpc_error", r.err))
               ELSE IF ~r.found
               THEN Finish(c, writeErr(c.jsonOut, "not_found", "unknown txid"))
               ELSE Finish(c, writeOK(c.jsonOut, [Nothing EXCEPT !.st = r.st]))
    /\ UNCHANGED <<locals, client, construction, parked>>

\* the process has exited; the next invocation starts
Exited ==
    /\ cli.pc = "exit"
    /\ cli' = NoRun
    /\ UNCHANGED <<locals, client, construction, parked>>

NextCLI ==
    \/ \E args \in SubmitArgs, file \in FileReads : runSubmit(args, file)
    \/ \E args \in StatusArgs : runStatus(args)
    \/ FactoryReturn
    \/ RunnerSubmit
    \/ RunnerWaitForConfirmations
    \/ RunnerStatus
    \/ Exited

SpecCLI == Init /\ [][NextCLI]_vars

-----------------------------------------------------------------------------
(* Properties.  A Status call has returned when the Status operation is     *)
(* done, or when WaitForConfirmations is past a poll; st, found and err     *)
(* then hold what it returned and calls holds its transport calls.          *)

StatusReturned ==
    \/ op = "Status" /\ pc = "done"
    \/ op = "Wait" /\ pc \in {"select", "done"} /\ polls > 0

\* the direct lookup of the Status call was made and returned an error
DirectFailed == Len(calls) >= 1 /\ calls[1].reply.err # NoErr

\* the direct lookup of the Status call was made and returned no error
DirectSucceeded == Len(calls) >= 1 /\ calls[1].reply.err = NoErr

\* the mempool listing of the Status call was made and returned no error
MempoolListed == Len(calls) = 2 /\ calls[2].reply.err = NoErr

\* the listing holds the requested id, compared after trimming and lowercasing
ListingHolds(mempool, id) ==
    \E i \in 1..Len(mempool) : ToLower(TrimSpace(mempool[i])) = ToLower(TrimSpace(id))

\* the not-found phrasing as the specification gives it
NotFoundPhrasing(m) ==
    \/ Contains(ToLower(m), no_such_mempool)
    \/ Contains(ToLower(m), not_found)

\* C1: when the direct lookup fails and the mempool listing holds the requested
\* id (equal after trimming and lowercasing), Status returns found = true with
\* inMempool = true, confirmations = 0, an empty blockHash and no error.
C1_MempoolFallbackFound ==
    (StatusReturned /\ DirectFailed /\ MempoolListed
        /\ ListingHolds(calls[2].reply.mempool, arg))
    => /\ found
       /\ err = NoErr
       /\ st.InMempool
       /\ st.Confirmations = 0
       /\ st.BlockHash = <<>>

\* C1's case: a not-found RPC error, then a listing that holds the id in upper case
C1_Witness ==
    /\ op = "Status" /\ pc = "done" /\ arg = TxB
    /\ DirectFailed /\ calls[1].reply.err = RPCErr(MsgNoSuchTx)
    /\ MempoolListed
    /\ calls[2].reply.mempool = <<TxC, <<" ">> \o Rep("B", TxIDLen) \o <<"\n">> >>
    /\ ret.found /\ ret.st.InMempool

\* C2: when the direct lookup fails and the mempool listing succeeds without an
\* entry equal to the id, Status returns the zero status, found = false, no error.
C2_UnknownIsNotAnError ==
    (StatusReturned /\ DirectFailed /\ MempoolListed
        /\ ~ListingHolds(calls[2].reply.mempool, arg))
    => /\ st = ZeroStatus
       /\ ~found
       /\ err = NoErr

\* C2's case: a not-found RPC error, then a listing of another id only
C2_Witness ==
    /\ op = "Status" /\ pc = "done" /\ arg = Rep("B", TxIDLen)
    /\ DirectFailed /\ calls[1].reply.err = RPCErr(MsgNoSuchTx)
    /\ MempoolListed /\ calls[2].reply.mempool = <<TxC>>
    /\ ret = NoRet

\* the errors C3 gives as examples of errors outside the not-found phrasing
UnrelatedMsgs == {MsgUnauthorized, MsgNoSuchWallet, MsgMethodNotFound}

\* C3 (as claimed): a direct-lookup error outside the not-found phrasing, such as
\* an authentication failure, "no such wallet" or "method not found", is returned
\* by Status with found = false, and getrawmempool is not called in that call.
C3_OtherErrorsShortCircuit ==
    (StatusReturned /\ DirectFailed /\ calls[1].reply.err.msg \in UnrelatedMsgs)
    => /\ Len(calls) = 1
       /\ err = calls[1].reply.err
       /\ ~found

\* C4 (as claimed): a direct-lookup error whose message contains the not-found
\* phrasing, of whatever kind of error value, makes Status query the mempool.
C4_NotFoundAnyKindFallsBack ==
    (StatusReturned /\ DirectFailed /\ NotFoundPhrasing(calls[1].reply.err.msg))
    => /\ Len(calls) = 2
       /\ calls[2].method = "getrawmempool"

\* C4 (amended): a direct-lookup error that is, or wraps, an RPCError whose
\* message contains the not-found phrasing is not propagated: Status queries
\* the mempool listing.
C4_NotFoundRPCErrorFallsBack ==
    (StatusReturned /\ DirectFailed
        /\ calls[1].reply.err.kind \in {"RPCError", "wrappedRPCError"}
        /\ NotFoundPhrasing(calls[1].reply.err.msg))
    => /\ Len(calls) = 2
       /\ calls[2].method = "getrawmempool"
       /\ (err # NoErr => calls[2].reply.err # NoErr)

\* C4's case: a wrapped RPC error with the not-found message, then an empty listing
C4_Witness ==
    /\ op = "Status" /\ pc = "done"
    /\ DirectFailed
    /\ calls[1].reply.err.kind = "wrappedRPCError"
    /\ calls[1].reply.err.msg = MsgNoSuchTx
    /\ MempoolListed /\ calls[2].reply.mempool = <<>>
    /\ ret.err = NoErr

\* C5: when the direct lookup succeeds, Status returns found = true, inMempool is
\* true exactly when the reply's confirmations is 0 and its block hash is empty,
\* and the mempool listing is not consulted.
C5_InMempoolDerived ==
    (StatusReturned /\ DirectSucceeded)
    => /\ found
       /\ err = NoErr
       /\ Len(calls) = 1
       /\ st.InMempool <=> (calls[1].reply.verbose.Confirmations = 0
                            /\ calls[1].reply.verbose.BlockHash = <<>>)

\* C5's case: the reply has confirmations = 0 and an empty block hash
C5_Witness ==
    /\ op = "Status" /\ pc = "done"
    /\ DirectSucceeded
    /\ calls[1].reply.verbose = [Confirmations |-> 0, BlockHash |-> <<>>]
    /\ ret.found /\ ret.st.InMempool

\* the TransactionStatus invariant of the data model
StatusInvariant(s) ==
    /\ s.Confirmations >= 0
    /\ s.InMempool => s.Confirmations = 0
    /\ s.BlockHash # <<>> => s.Confirmations > 0

\* C6 (as claimed): every found status that Status or WaitForConfirmations
\* returns satisfies the TransactionStatus invariant, whatever the daemon replies.
C6_StatusInvariantHolds ==
    /\ (StatusReturned /\ found) => StatusInvariant(st)
    /\ (op = "Wait" /\ pc = "done" /\ ret.err = NoErr) => StatusInvariant(ret.st)

\* the raw input is empty after trimming, or is not valid hexadecimal
BadRawInput(x) ==
    LET keep == {i \in 1..Len(x) : x[i] \notin Space}
    IN  \/ keep = {}
        \/ \E i \in keep : \E j \in keep :
              /\ \A k \in keep : i <= k /\ k <= j
              /\ \/ (j - i + 1) % 2 = 1
                 \/ \E k \in i..j : x[k] \notin HexDigits

\* C7: for a raw input that is empty after trimming or is not valid hexadecimal
\* (odd length included), Submit returns an error and never calls SendRawTransaction.
C7_BadInputNoTransportCall ==
    (op = "Submit" /\ BadRawInput(arg))
    => /\ pc = "done"
       /\ calls = <<>>
       /\ nCalls = 0
       /\ ret.err # NoErr
       /\ ret.txid = <<>>

\* C7's case: Submit has returned for an odd-length hex input
C7_Witness ==
    /\ op = "Submit" /\ pc = "done"
    /\ arg = <<"0">>
    /\ calls = <<>>
    /\ ret.err = NewErr("broadcast: raw tx hex must be hex")

\* C8: Submit does not retry: SendRawTransaction is called at most once in a
\* Submit call, exactly once for a valid payload, and its error is returned as it
\* is, with an empty txid and no further transport call.
C8_SubmitNoRetry ==
    op = "Submit"
    => /\ Len(calls) <= 1
       /\ nCalls = Len(calls)
       /\ \A i \in 1..Len(calls) : calls[i].method = "sendrawtransaction"
       /\ pc = "done" =>
            /\ ~BadRawInput(arg) => Len(calls) = 1
            /\ (Len(calls) = 1 /\ calls[1].reply.err # NoErr)
                  => ret.err = calls[1].reply.err /\ ret.txid = <<>>

\* C8's case: the one send failed and Submit returned the transport's error
C8_Witness ==
    /\ op = "Submit" /\ pc = "done"
    /\ nCalls = 1
    /\ calls[1].reply.err = RPCErr(MsgUnauthorized)
    /\ ret.err = RPCErr(MsgUnauthorized)

\* p is x with only the white space around it removed
TrimmedOf(p, x) ==
    \E i \in 1..Len(x) : \E j \in i..Len(x) :
       /\ p = [k \in 1..(j - i + 1) |-> x[i + k - 1]]
       /\ x[i] \notin Space /\ x[j] \notin Space
       /\ \A k \in 1..Len(x) : (k < i \/ k > j) => x[k] \in Space

\* C9: the value Submit passes to SendRawTransaction is the caller's input with
\* only the surrounding white space removed: case and content are unchanged.
C9_ForwardsTrimmedInput ==
    (op = "Submit" /\ (pc = "sendrawtransaction" \/ calls # <<>>))
    => /\ TrimmedOf(raw, arg)
       /\ \A i \in 1..Len(calls) : calls[i].param = raw

\* C9's case: a padded, mixed-case payload reached the transport
C9_Witness ==
    /\ op = "Submit" /\ pc = "done"
    /\ arg = <<" ", "A", "b", "\n">>
    /\ Len(calls) = 1
    /\ calls[1].param = <<"A", "b">>

LowerHexDigits ==
    {"0", "1", "2", "3", "4", "5", "6", "7", "8", "9", "a", "b", "c", "d", "e", "f"}

\* t is 64 lowercase hexadecimal characters
CanonicalTxID(t) == Len(t) = TxIDLen /\ \A i \in 1..Len(t) : t[i] \in LowerHexDigits

\* C10: when Submit returns without error its txid is 64 lowercase hexadecimal
\* characters, the trimmed and lowercased transport result; when that result is
\* not 64 hexadecimal characters Submit returns an error and an empty txid.
C10_ReturnedTxIDCanonical ==
    (op = "Submit" /\ pc = "done")
    => /\ ret.err = NoErr
          => /\ Len(calls) = 1
             /\ CanonicalTxID(ret.txid)
             /\ ret.txid = ToLower(TrimSpace(calls[1].reply.id))
       /\ (Len(calls) = 1 /\ ~CanonicalTxID(ToLower(TrimSpace(calls[1].reply.id))))
          => ret.err # NoErr /\ ret.txid = <<>>

\* C10's case: the node answered 64 upper-case A, padded, and Submit returned 64 a
C10_Witness ==
    /\ op = "Submit" /\ pc = "done"
    /\ Len(calls) = 1
    /\ calls[1].reply.id = <<"\t">> \o Rep("A", TxIDLen) \o <<" ">>
    /\ ret.err = NoErr
    /\ ret.txid = Rep("a", TxIDLen)

\* t is 64 hexadecimal characters after trimming and lowercasing
WellFormedTxID(t) ==
    LET n == ToLower(TrimSpace(t))
    IN  Len(n) = TxIDLen /\ \A i \in 1..Len(n) : n[i] \in HexDigits

\* WaitForConfirmations is past at least one Status poll
Polled == op = "Wait" /\ pc \in {"select", "done"} /\ polls > 0

\* C11: WaitForConfirmations(txid, 0) returns successfully at the first poll whose
\* Status result has found = true, in the mempool or confirmed: it is never left
\* waiting after such a poll, and what it returns is that poll's status.
C11_ZeroReturnsWhenSeen ==
    (Polled /\ minConf = 0 /\ found)
    => /\ pc = "done"
       /\ ret = [NoRet EXCEPT !.st = st]
       /\ ticksTaken = polls - 1

\* C11's case: the second poll found the transaction in the mempool only
C11_Witness ==
    /\ op = "Wait" /\ pc = "done" /\ minConf = 0
    /\ polls = 2
    /\ Len(calls) = 2
    /\ ret.err = NoErr
    /\ ret.st = MempoolStatus(TxB)

\* C12: WaitForConfirmations(txid, N) with N > 0 returns a status without error
\* only if the last Status poll had found = true and confirmations >= N, and the
\* status returned is that poll's; other polls never end the wait successfully.
C12_SuccessOnlyAtTarget ==
    (op = "Wait" /\ pc = "done" /\ minConf > 0 /\ ret.err = NoErr)
    => /\ polls > 0
       /\ found
       /\ err = NoErr
       /\ st.Confirmations >= minConf
       /\ ret.st = st

\* C12's case: target 1, the third poll reports confirmations = 1 and a block hash
C12_Witness ==
    /\ op = "Wait" /\ pc = "done" /\ minConf = 1
    /\ polls = 3
    /\ ret.err = NoErr
    /\ ret.st = [TxID |-> TxB, InMempool |-> FALSE, Confirmations |-> 1,
                 BlockHash |-> BlockHashE]

\* C13 (as claimed): when the cancellation signal fired before a poll observed
\* confirmations >= N (N > 0), WaitForConfirmations returns the context's error
\* itself and no success status (for a well-formed txid; a malformed one is
\* rejected by the first poll).  The signal cannot fire once the call is done, so
\* at the return a fired signal has fired before the last poll returned.
C13_CancelledNeverSucceeds ==
    (op = "Wait" /\ pc = "done" /\ minConf > 0 /\ ctxErr # NoErr
        /\ WellFormedTxID(arg))
    => /\ ret.err = ctxErr
       /\ ret.st = ZeroStatus

\* C14 (as claimed): once the cancellation signal has fired while
\* WaitForConfirmations is suspended in the select, no further Status poll is
\* made, also when the ticker has a tick ready.
C14_CancelHonoredPromptly ==
    [][(op = "Wait" /\ pc = "select" /\ ctxErr # NoErr) => polls' = polls]_vars

\* C15: the first Status error inside WaitForConfirmations ends the wait with that
\* error and the zero status; the wait is suspended for another poll only after a
\* Status result without error that did not meet the target.
C15_StatusErrorEndsWait ==
    /\ (Polled /\ err # NoErr)
       => /\ pc = "done"
          /\ ret = [NoRet EXCEPT !.err = err]
    /\ (op = "Wait" /\ pc = "select")
       => /\ err = NoErr
          /\ ~(found /\ (minConf = 0 \/ st.Confirmations >= minConf))

\* C15's case: the second poll's direct lookup failed with an error that is not
\* a not-found error
C15_Witness ==
    /\ op = "Wait" /\ pc = "done"
    /\ polls = 2 /\ nCalls = 3
    /\ err = RPCErr(MsgUnauthorized)
    /\ ret = [NoRet EXCEPT !.err = RPCErr(MsgUnauthorized)]

\* C16: the wait loop takes exactly one tick between two consecutive Status
\* polls, and every return of a call that created the ticker has stopped it.
C16_OneTickPerPollTickerStopped ==
    /\ (op = "Wait" /\ polls > 0) => ticksTaken = polls - 1
    /\ (op = "Wait" /\ polls = 0) => ticksTaken = 0 /\ ticker = "none"
    /\ (op = "Wait" /\ pc = "done" /\ polls > 0) => ticker = "stopped"
    /\ op # "Wait" => ticker = "none"

\* C16's case: three polls and a return on cancellation
C16_Witness ==
    /\ op = "Wait" /\ pc = "done"
    /\ polls = 3 /\ ticksTaken = 2
    /\ ret.err \in CtxErrs
    /\ ticker = "stopped"

\* C17: WaitForConfirmations with minConfirmations < 0 returns an error at once:
\* no Status poll, no transport call, no ticker.
C17_NegativeTargetRejected ==
    (op = "Wait" /\ minConf < 0)
    => /\ pc = "done"
       /\ ret = [NoRet EXCEPT !.err = NewErr("broadcast: confirmations must be >= 0")]
       /\ polls = 0
       /\ nCalls = 0
       /\ calls = <<>>
       /\ ticker = "none"
       /\ period = 0

\* C17's case: a well-formed txid with a target of -1
C17_Witness ==
    /\ op = "Wait" /\ pc = "done" /\ minConf = -1
    /\ arg = <<" ">> \o Rep("B", TxIDLen) \o <<"\n">>
    /\ ret.err # NoErr

\* C18: for a txid that is not 64 hexadecimal characters after trimming and
\* lowercasing, Status returns an error with found = false and makes no transport
\* call, and WaitForConfirmations returns that error from its first poll without
\* waiting.
C18_MalformedTxIDRejected ==
    (op \in {"Status", "Wait"} /\ (op = "Wait" => minConf >= 0)
        /\ ~WellFormedTxID(arg))
    => /\ pc = "done"
       /\ ret = [NoRet EXCEPT !.err = NewErr("broadcast: txid must be 32-byte hex")]
       /\ nCalls = 0
       /\ calls = <<>>
       /\ polls = 1
       /\ ticksTaken = 0

\* C18's case: WaitForConfirmations for a 63-character txid
C18_Witness ==
    /\ op = "Wait" /\ pc = "done" /\ minConf = 1
    /\ arg = Rep("b", TxIDLen - 1)
    /\ polls = 1
    /\ ret.err = NewErr("broadcast: txid must be 32-byte hex")

\* the interval the last option with a positive duration gives, else the default
LastPositive(opts) ==
    LET pos == {i \in 1..Len(opts) : opts[i].kind # "nil" /\ opts[i].d > 0}
    IN  IF pos = {} THEN 500
        ELSE opts[CHOOSE i \in pos : \A j \in pos : j <= i].d

\* C19: New fails exactly when the transport is nil; with a transport it succeeds
\* for every sequence of options, nil options and intervals <= 0 included, and
\* the poll interval is positive: 500 ms unless a positive interval was given, a
\* non-positive one never replacing the value already set.
C19_NewPollIntervalPositive ==
    /\ newPc = "opts" => pollInterval > 0
    /\ newPc = "done"
       => /\ newErr # NoErr <=> newRPC = "nil"
          /\ newErr # NoErr => rpc = "nil" /\ newIdx = 0
          /\ newErr = NoErr
             => /\ rpc = newRPC
                /\ newIdx = Len(newOpts)
                /\ pollInterval > 0
                /\ pollInterval = LastPositive(newOpts)

\* C19's case: a positive interval followed by a non-positive one
C19_Witness ==
    /\ newPc = "done"
    /\ newRPC = "rpc"
    /\ newOpts = <<WithPollInterval(50), WithPollInterval(0)>>
    /\ newErr = NoErr
    /\ pollInterval = 50

\* what Status returns for the id and the replies cs to its own transport calls
StatusOutcome(id, cs) ==
    LET t == NormalizeID(id)
        out(s, f, e) == [st |-> s, found |-> f, err |-> e]
    IN  IF ~ValidTxID(t)
        THEN out(ZeroStatus, FALSE, NewErr("broadcast: txid must be 32-byte hex"))
        ELSE IF Len(cs) = 0 THEN out(ZeroStatus, FALSE, NewErr("no reply"))
        ELSE IF cs[1].reply.err = NoErr
        THEN out(StatusFromVerbose(t, cs[1].reply.verbose), TRUE, NoErr)
        ELSE IF ~isNotFoundErr(cs[1].reply.err)
        THEN out(ZeroStatus, FALSE, cs[1].reply.err)
        ELSE IF Len(cs) = 1 THEN out(ZeroStatus, FALSE, NewErr("no reply"))
        ELSE IF cs[2].reply.err # NoErr
        THEN out(ZeroStatus, FALSE, Wrap("broadcast: getrawmempool", cs[2].reply.err))
        ELSE IF MempoolHas(cs[2].reply.mempool, t)
        THEN out(MempoolStatus(t), TRUE, NoErr)
        ELSE out(ZeroStatus, FALSE, NoErr)

\* what a finished call returns, from its own arguments, its own context and
\* the replies to its own transport calls
Outcome(f) ==
    CASE f.op = "Submit" ->
            LET h == normalizeHex(f.arg)
            IN  IF h.err # NoErr THEN [NoRet EXCEPT !.err = h.err]
                ELSE IF Len(f.calls) = 0 THEN NoRet
                ELSE SubmitResult(f.calls[1].reply)
      [] f.op = "Status" ->
            LET o == StatusOutcome(f.arg, f.calls)
            IN  [NoRet EXCEPT !.st = o.st, !.found = o.found, !.err = o.err]
      [] f.op = "Wait" ->
            LET o == StatusOutcome(f.arg, f.calls)
            IN  IF f.minConf < 0
                THEN [NoRet EXCEPT !.err = NewErr("broadcast: confirmations must be >= 0")]
                ELSE IF o.err # NoErr THEN [NoRet EXCEPT !.err = o.err]
                ELSE IF TargetReached(o.found, o.st, f.minConf)
                THEN [NoRet EXCEPT !.st = o.st]
                ELSE [NoRet EXCEPT !.err = f.ctxErr]
      [] OTHER -> NoRet

\* the parameters of a goroutine's transport calls come from its own argument
OwnParams(f) ==
    \A i \in DOMAIN f.calls :
        CASE f.calls[i].method = "sendrawtransaction" ->
                f.calls[i].param = normalizeHex(f.arg).s
          [] f.calls[i].method = "getrawtransaction" ->
                f.calls[i].param = <<NormalizeID(f.arg), 1>>
          [] OTHER -> f.calls[i].param = <<FALSE>>

OwnOutcome(f) ==
    /\ OwnParams(f)
    /\ f.pc = "done" => f.ret = Outcome(f)

\* C20: concurrent Submit, Status and WaitForConfirmations calls on one Client do
\* not interfere.  No step writes the Client's rpc or pollInterval; a step either
\* is the running goroutine's and leaves the other's locals alone, or only
\* exchanges the two goroutines; and, under every interleaving, what a call
\* passes to the transport and what it returns is a function of its own
\* arguments, its own context and the replies to its own transport calls.
C20_ConcurrentCallsIndependent ==
    [][ /\ rpc' = rpc
        /\ pollInterval' = pollInterval
        /\ \/ parked' = parked /\ OwnOutcome(Frame')
           \/ parked' = Frame /\ Frame' = parked ]_vars

\* C20's case: a Status call returns what its own reply holds while a
\* WaitForConfirmations call for another id is between two polls
C20_Witness ==
    /\ op = "Status" /\ pc = "done" /\ ret.found /\ NormalizeID(arg) = TxB
    /\ ret.st.Confirmations = MaxConf
    /\ parked.op = "Wait" /\ parked.pc = "select" /\ parked.nCalls >= 1
    /\ parked.arg = TxC

\* C21: WaitForConfirmations can always be bounded from outside.  If every
\* transport call returns, the cancellation comes and the select is fair to
\* ctx.Done(), a call in progress returns.
C21_WaitReturnsUnderCancellation ==
    (op = "Wait" /\ pc # "done") ~> (op = "Wait" /\ pc = "done")

\* C21's case: the wait, never at its target, ended by the cancellation after a tick
C21_Witness ==
    /\ op = "Wait" /\ pc = "done"
    /\ ctxErr # NoErr /\ ret.err = ctxErr
    /\ ticksTaken >= 1
    /\ ret.st = ZeroStatus

\* what Status returns, as the record the caller gets
StatusRet(o) == [NoRet EXCEPT !.st = o.st, !.found = o.found, !.err = o.err]

\* C22: Status treats the caller's id case- and whitespace-insensitively.  From
\* line 76 on only the lowercased, trimmed id exists: the direct lookup is sent
\* it, and the result is the one Status gives for that id with the same replies,
\* so Status(txid) and Status(lowercase(trim(txid))) issue the same calls and
\* return the same result; a found status carries the canonical lowercase id.
C22_StatusCanonicalisesCallerID ==
    (op = "Status" /\ pc = "done")
    => LET c == ToLower(TrimSpace(arg))
       IN  /\ txid = c
           /\ \A i \in DOMAIN calls :
                 calls[i].method = "getrawtransaction" => calls[i].param = <<c, 1>>
           /\ ret = StatusRet(StatusOutcome(arg, calls))
           /\ ret = StatusRet(StatusOutcome(c, calls))
           /\ ret.found => ret.st.TxID = c /\ CanonicalTxID(c)

\* C22's case: a padded upper-case id looked up and found under its lowercase form
C22_Witness ==
    /\ op = "Status" /\ pc = "done"
    /\ arg = <<" ">> \o Rep("B", TxIDLen) \o <<"\n">>
    /\ calls[1].param = <<TxB, 1>>
    /\ ret.found /\ ret.st.TxID = TxB

\* C25: a transport error of the mempool listing is returned by Status wrapped
\* with the method name, carrying the transport's error, with found = false and
\* the zero status, whatever its message says, not-found phrasing included;
\* WaitForConfirmations ends with it and does not poll again.
C25_MempoolErrorPropagated ==
    (StatusReturned /\ Len(calls) = 2 /\ calls[2].reply.err # NoErr)
    => /\ err = Wrap("broadcast: getrawmempool", calls[2].reply.err)
       /\ err # NoErr /\ err.msg = calls[2].reply.err.msg
       /\ ~found
       /\ st = ZeroStatus
       /\ pc = "done"
       /\ op = "Status" => ret = [NoRet EXCEPT !.err = err]
       /\ op = "Wait" => ret = [NoRet EXCEPT !.err = err] /\ ticker = "stopped"

\* C25's case: the listing of the second poll failed with a not-found RPC error
C25_Witness ==
    /\ op = "Wait" /\ pc = "done" /\ polls = 2
    /\ Len(calls) = 2
    /\ calls[2].reply.err = RPCErr(MsgNoSuchTx)
    /\ ret.err = Wrap("broadcast: getrawmempool", RPCErr(MsgNoSuchTx))

\* e is a not-found error: an error whose message has the not-found phrasing and
\* is not about something other than the transaction
TxNotFoundError(e) ==
    /\ e # NoErr
    /\ NotFoundPhrasing(e.msg)
    /\ e.msg \notin UnrelatedMsgs

\* C27 (as claimed): in every Status call the transport sees at most two calls in
\* a fixed order: getrawtransaction first, exactly once for a valid txid;
\* getrawmempool at most once, and only after getrawtransaction returned a
\* not-found error; a successful direct lookup ends the call.
C27_TwoCallsInOrder ==
    /\ op \in {"Status", "Wait"}
       => /\ Len(calls) <= 2
          /\ Len(calls) >= 1 => /\ calls[1].method = "getrawtransaction"
                                /\ WellFormedTxID(arg)
          /\ Len(calls) = 2 => /\ calls[2].method = "getrawmempool"
                               /\ TxNotFoundError(calls[1].reply.err)
          /\ pc = "getrawtransaction" => calls = <<>>
          /\ pc = "getrawmempool" => Len(calls) = 1
    /\ op = "Status" => nCalls = Len(calls)
    /\ StatusReturned
       => /\ WellFormedTxID(arg) => Len(calls) >= 1
          /\ DirectSucceeded => Len(calls) = 1

\* C28: the mempool fallback reports confirmations = 0 only, so a
\* WaitForConfirmations call with N > 0 whose last poll had a failed direct
\* lookup has not returned success: it ends by cancellation or a Status error.
C28_FallbackNeverConfirms ==
    /\ (StatusReturned /\ Len(calls) = 2 /\ found)
       => st.Confirmations = 0 /\ st.InMempool /\ st.BlockHash = <<>>
    /\ (op = "Wait" /\ minConf > 0 /\ Polled /\ DirectFailed)
       => /\ pc = "done" => /\ ret.st = ZeroStatus
                            /\ ret.err # NoErr
                            /\ ret.err = err \/ (err = NoErr /\ ret.err = ctxErr)
          /\ (pc = "select" /\ Len(calls) = 2 /\ ~ListingHolds(calls[2].reply.mempool, arg))
             => ~found

\* C28's case: the direct lookup fails, the listing held the id in the second
\* poll, and the wait ended by cancellation
C28_Witness ==
    /\ op = "Wait" /\ pc = "done" /\ minConf = 1 /\ polls = 2
    /\ calls[1].reply.err = RPCErr(MsgNoSuchTx)
    /\ Len(calls) = 2 /\ found /\ st.InMempool
    /\ ret.err = ctxErr /\ ctxErr # NoErr

\* C29: WaitForConfirmations makes its first Status poll before it looks at the
\* context or the timer: there is no state of the call without a poll, no
\* cancellation is returned before a transport call was made for a well-formed
\* id, and a first poll that meets the target returns success also when the
\* context is done.
C29_FirstPollBeforeContext ==
    /\ (op = "Wait" /\ minConf >= 0) => polls >= 1
    /\ (op = "Wait" /\ pc = "done" /\ ctxErr # NoErr /\ ret.err = ctxErr)
       => nCalls >= 1 /\ WellFormedTxID(arg)
    /\ (op = "Wait" /\ pc = "done" /\ polls = 1 /\ err = NoErr
           /\ found /\ (minConf = 0 \/ st.Confirmations >= minConf))
       => ret = [NoRet EXCEPT !.st = st] /\ ticksTaken = 0

\* C29's case: the context was done when the first poll returned a status that
\* meets the target, and the call returned success
C29_Witness ==
    /\ op = "Wait" /\ pc = "done" /\ polls = 1 /\ nCalls = 1
    /\ ctxErr # NoErr
    /\ minConf = MaxConf /\ st.Confirmations = MaxConf /\ found
    /\ ret.err = NoErr /\ ret.st = st

\* C30: when Submit fails because the node returned an invalid txid, the payload
\* was handed to SendRawTransaction exactly once and that call succeeded; the
\* caller gets the error and no txid.
C30_InvalidTxIDAfterBroadcast ==
    (op = "Submit" /\ pc = "done"
        /\ ret.err = NewErr("broadcast: node returned invalid txid"))
    => /\ Len(calls) = 1 /\ nCalls = 1
       /\ calls[1].method = "sendrawtransaction"
       /\ calls[1].param = raw
       /\ calls[1].reply.err = NoErr
       /\ ~CanonicalTxID(ToLower(TrimSpace(calls[1].reply.id)))
       /\ ret.txid = <<>>

\* C30's case: the node accepted the payload and answered "bad"
C30_Witness ==
    /\ op = "Submit" /\ pc = "done"
    /\ nCalls = 1
    /\ calls[1].reply = [id |-> <<"b", "a", "d">>, err |-> NoErr]
    /\ ret.err = NewErr("broadcast: node returned invalid txid")
    /\ ret.txid = <<>>

\* the JSON error envelope with version v1 is what stdout got, stderr got nothing
ErrEnvelope(c) ==
    /\ c.stdout.kind = "envelope"
    /\ c.stdout.version = "v1"
    /\ c.stdout.status = "err"
    /\ c.stderr = Nothing

\* C23 (as claimed): the submit command given neither --raw-tx-hex nor
\* --raw-tx-file, or given both, fails before any Runner is made: the factory is
\* not called, no Submit happens, the exit code is not 0 and with --json the
\* output is the v1 error envelope.
C23_SubmitNeedsOneSource ==
    (cli.cmd = "submit" /\ cli.pc # "idle"
        /\ (cli.args.rawTxHex = <<>>) = (cli.args.rawTxFile = <<>>))
    => /\ cli.pc = "exit"
       /\ cli.factoryCalls = 0
       /\ cli.runnerCalls = <<>>
       /\ cli.exit # 0
       /\ cli.args.json => ErrEnvelope(cli)

\* C23 (amended): the same, for flags that fs.Parse accepts, a source being given
\* when its value is not blank.
C23_SubmitNeedsOneSourceParsed ==
    (cli.cmd = "submit" /\ cli.pc # "idle" /\ cli.args.parses
        /\ (TrimSpace(cli.args.rawTxHex) = <<>>) = (TrimSpace(cli.args.rawTxFile) = <<>>))
    => /\ cli.pc = "exit"
       /\ cli.factoryCalls = 0
       /\ cli.runnerCalls = <<>>
       /\ cli.exit # 0
       /\ cli.args.json => ErrEnvelope(cli)

\* C23's case: a url, --json and no source
C23_Witness ==
    /\ cli.cmd = "submit" /\ cli.pc = "exit"
    /\ cli.args.parses /\ cli.args.json
    /\ cli.args.rpcURL = <<"u">>
    /\ cli.args.rawTxHex = <<>> /\ cli.args.rawTxFile = <<>>
    /\ cli.exit = 1
    /\ cli.stdout.code = "invalid_request"
    /\ cli.factoryCalls = 0

\* C24: the status command, when the Runner's Status returns found = false and no
\* error, exits with a code that is not 0 and reports not_found, in the v1 error
\* envelope with --json; it exits with 0 only when Status returned found = true
\* and no error.
C24_StatusNotFoundIsAnError ==
    (cli.cmd = "status" /\ cli.pc = "exit")
    => /\ Len(cli.runnerCalls) <= 1
       /\ \A i \in DOMAIN cli.runnerCalls :
             LET r == cli.runnerCalls[i].ret
             IN  /\ cli.runnerCalls[i].method = "Status"
                 /\ (r.err = "" /\ ~r.found)
                    => /\ cli.exit # 0
                       /\ cli.jsonOut => ErrEnvelope(cli) /\ cli.stdout.code = "not_found"
                       /\ ~cli.jsonOut => /\ cli.stdout = Nothing
                                          /\ cli.stderr.text = "unknown txid"
       /\ cli.exit = 0
          => /\ Len(cli.runnerCalls) = 1
             /\ cli.runnerCalls[1].ret.found
             /\ cli.runnerCalls[1].ret.err = ""
             /\ cli.stdout.st = cli.runnerCalls[1].ret.st

\* C24's case: Status returned (TxStatus{}, false, nil) under --json
C24_Witness ==
    /\ cli.cmd = "status" /\ cli.pc = "exit" /\ cli.jsonOut
    /\ Len(cli.runnerCalls) = 1
    /\ cli.runnerCalls[1].ret = [st |-> ZeroStatus, found |-> FALSE, txid |-> <<>>, err |-> ""]
    /\ cli.exit = 1
    /\ cli.stdout.code = "not_found"

\* the calls of method m among the Runner calls cs
CallsOf(cs, m) == {i \in DOMAIN cs : cs[i].method = m}

\* C26: the submit command calls WaitForConfirmations exactly when Submit
\* succeeded and --confirmations > 0, with the txid Submit returned and the count
\* asked for; with --confirmations <= 0 it does not wait; it never calls Status
\* and never calls Submit twice.
C26_SubmitWaitsOnlyWhenAsked ==
    cli.cmd = "submit"
    => LET cs == cli.runnerCalls
           submitted == Len(cs) >= 1 /\ cs[1].ret.err = ""
       IN  /\ Len(cs) <= 2
           /\ CallsOf(cs, "Status") = {}
           /\ CallsOf(cs, "Submit") \subseteq {1}
           /\ CallsOf(cs, "WaitForConfirmations") \subseteq {2}
           /\ Len(cs) >= 1 => cs[1].method = "Submit" /\ cs[1].arg = cli.raw
           /\ Len(cs) = 2
              => /\ submitted
                 /\ cli.args.confirmations > 0
                 /\ cs[2].arg = cs[1].ret.txid
                 /\ cs[2].n = cli.args.confirmations
           /\ (submitted /\ cli.args.confirmations > 0)
              => \/ Len(cs) = 1 /\ cli.pc = "WaitForConfirmations"
                 \/ Len(cs) = 2 /\ cli.pc = "exit"
           /\ cli.pc = "WaitForConfirmations"
              => submitted /\ Len(cs) = 1 /\ cli.args.confirmations > 0

\* C26's case: Submit succeeded, two confirmations were asked for, and the wait
\* was made for the txid Submit returned
C26_Witness ==
    /\ cli.cmd = "submit" /\ cli.pc = "exit"
    /\ cli.args.confirmations = MaxConf
    /\ Len(cli.runnerCalls) = 2
    /\ cli.runnerCalls[1].ret.txid = <<"a", "b">>
    /\ cli.runnerCalls[2] =
          [method |-> "WaitForConfirmations", arg |-> <<"a", "b">>, n |-> MaxConf,
           ret |-> cli.runnerCalls[2].ret]
    /\ cli.exit = 0

\* C31 (as claimed): in every found status that Status returns the fields agree:
\* InMempool is true exactly when the returned Confirmations is 0 and the
\* returned BlockHash is empty, also when the daemon's block hash is white space
\* only and the returned BlockHash is its trimmed value.
C31_FoundStatusFieldsAgree ==
    (StatusReturned /\ found)
    => (st.InMempool <=> (st.Confirmations = 0 /\ st.BlockHash = <<>>))

====
